---- MODULE Spec2Model ----
(***************************************************************************)
(* A model of the cs224n/a4-2023 NMT homework code:                        *)
(*   - run.py, train(): the epoch / batch / validation loop with its       *)
(*     patience counter, learning-rate-decay trials, early stop and the    *)
(*     max-epoch hard stop;                                                *)
(*   - vocab.py: VocabEntry (lookup, add, item assignment, id2word,        *)
(*     words2indices, indices2words) and Vocab (build, save, load).        *)
(* Three next-state relations share the variables: TrainSpec (and its fair *)
(* version TrainFairSpec), EntrySpec and PersistSpec.                      *)
(***************************************************************************)
EXTENDS Integers, Sequences, FiniteSets, TLC

VARIABLES
    \* ---- run.py, train() ----
    args,               \* the parsed command line (docopt), fixed for a run
    pc,                 \* position of train(): "while", "for", "validate", "hardstop", "exited"
    epoch,
    batch_idx,          \* batches batch_iter has yielded in the current epoch
    train_iter,
    patience,
    num_trial,
    valid_num,
    hist_valid_scores,
    lr_decays,          \* optimizer lr = --lr * (--lr-decay ^ lr_decays)
    n_restore,          \* number of model.load_state_dict / optimizer.load_state_dict restores
    n_save,             \* number of best-model checkpoints written
    exit_msg,           \* the message printed right before exit(0), "" while running
    trial_at,           \* history: the values of valid_num at which 'hit #%d trial' was printed
    \* ---- vocab.py, VocabEntry ----
    entry,              \* a VocabEntry instance
    ret,                \* the outcome of the last call on entry
    \* ---- vocab.py, Vocab ----
    vocab,              \* the Vocab built by main(), None before
    file,               \* the content of VOCAB_FILE, None before it is written
    loaded,             \* the Vocab returned by Vocab.load, None before
    saved               \* history: the Vocab whose save() wrote file

trainVars == <<args, pc, epoch, batch_idx, train_iter, patience, num_trial, valid_num,
               hist_valid_scores, lr_decays, n_restore, n_save, exit_msg, trial_at>>
entryVars == <<entry, ret>>
persistVars == <<vocab, file, loaded, saved>>
vars == <<trainVars, entryVars, persistVars>>

None == [none |-> TRUE]

\* ---------------------------------------------------------------- bounds
MaxEpochArg == 3
MaxTrialArg == 2
MaxPatienceArg == 2
MaxListLen == 3
MaxSentLen == 2

\* the validation metrics (-dev_ppl) a validation may produce
Scores == {0, 1, 2}
\* the numbers of batches batch_iter yields per epoch
BatchCounts == {1, 2}
\* the values of --valid-niter
ValidNiters == {1, 2}

\* ================================================================ train()

RECURSIVE SeqMax(_)
\* max(hist_valid_scores) of a non-empty list
SeqMax(s) ==
    IF Len(s) = 1 THEN s[1]
    ELSE LET m == SeqMax(SubSeq(s, 1, Len(s) - 1))
         IN IF s[Len(s)] > m THEN s[Len(s)] ELSE m

ArgSpace ==
    [max_epoch : 1..MaxEpochArg,
     max_num_trial : 0..MaxTrialArg,
     patience : 0..MaxPatienceArg,
     valid_niter : ValidNiters,
     nbatches : BatchCounts]

\* the locals of train() as they are set before the loop
TrainLocals ==
    [pc |-> "while", epoch |-> 0, batch_idx |-> 0, train_iter |-> 0, patience |-> 0,
     num_trial |-> 0, valid_num |-> 0, hist_valid_scores |-> <<>>, lr_decays |-> 0,
     n_restore |-> 0, n_save |-> 0, exit_msg |-> "", trial_at |-> {}]

\* while True: epoch += 1, and the for loop over batch_iter starts
EpochStart ==
    /\ pc = "while"
    /\ epoch' = epoch + 1
    /\ batch_idx' = 0
    /\ pc' = "for"
    /\ UNCHANGED <<args, train_iter, patience, num_trial, valid_num, hist_valid_scores,
                   lr_decays, n_restore, n_save, exit_msg, trial_at>>
    /\ UNCHANGED <<entryVars, persistVars>>

\* one batch: train_iter += 1, the optimizer step, then the validation test
TrainBatch ==
    /\ pc = "for"
    /\ batch_idx < args.nbatches
    /\ batch_idx' = batch_idx + 1
    /\ train_iter' = train_iter + 1
    /\ pc' = IF train_iter' % args.valid_niter = 0 THEN "validate" ELSE "hardstop"
    /\ UNCHANGED <<args, epoch, patience, num_trial, valid_num, hist_valid_scores,
                   lr_decays, n_restore, n_save, exit_msg, trial_at>>
    /\ UNCHANGED <<entryVars, persistVars>>

\* an epoch loop that is left when batch_iter is exhausted: train() returns
ForEndReturns ==
    /\ pc = "for"
    /\ batch_idx >= args.nbatches
    /\ pc' = "returned"
    /\ UNCHANGED <<args, epoch, batch_idx, train_iter, patience, num_trial, valid_num,
                   hist_valid_scores, lr_decays, n_restore, n_save, exit_msg, trial_at>>
    /\ UNCHANGED <<entryVars, persistVars>>

\* batch_iter is exhausted: back to the top of while True
ForEnd ==
    /\ pc = "for"
    /\ batch_idx >= args.nbatches
    /\ pc' = "while"
    /\ UNCHANGED <<args, epoch, batch_idx, train_iter, patience, num_trial, valid_num,
                   hist_valid_scores, lr_decays, n_restore, n_save, exit_msg, trial_at>>
    /\ UNCHANGED <<entryVars, persistVars>>

\* is_better = len(hist_valid_scores) == 0 or valid_metric > max(hist_valid_scores)
IsBetter(hist, valid_metric) ==
    Len(hist) = 0 \/ valid_metric > SeqMax(hist)

\* elif patience < int(args['--patience'])
PatienceTest(p) == p < args.patience

\* if patience == int(args['--patience'])
TrialTest(p) == p = args.patience

\* the early-stop test taken one trial too late
EarlyStopTestLate(n) == n > args.max_num_trial

\* if num_trial == int(args['--max-num-trial'])
EarlyStopTest(n) == n = args.max_num_trial

\* patience left as it is after a trial
PatienceKept == args.patience

\* the value patience is given after a trial that does not exit
PatienceAfterTrial == 0

\* the validation block of one batch, with validation metric valid_metric
Validate(valid_metric) ==
    /\ pc = "validate"
    /\ valid_num' = valid_num + 1
    /\ hist_valid_scores' = Append(hist_valid_scores, valid_metric)
    /\ IF IsBetter(hist_valid_scores, valid_metric)
       THEN /\ patience' = 0
            /\ n_save' = n_save + 1
            /\ pc' = "hardstop"
            /\ UNCHANGED <<num_trial, lr_decays, n_restore, exit_msg, trial_at>>
       ELSE IF PatienceTest(patience)
       THEN IF TrialTest(patience + 1)
            THEN /\ num_trial' = num_trial + 1
                 /\ trial_at' = trial_at \cup {valid_num'}
                 /\ IF EarlyStopTest(num_trial')
                    THEN /\ patience' = patience + 1
                         /\ exit_msg' = "early stop!"
                         /\ pc' = "exited"
                         /\ UNCHANGED <<lr_decays, n_restore, n_save>>
                    ELSE /\ lr_decays' = lr_decays + 1
                         /\ n_restore' = n_restore + 1
                         /\ patience' = PatienceAfterTrial
                         /\ pc' = "hardstop"
                         /\ UNCHANGED <<exit_msg, n_save>>
            ELSE /\ patience' = patience + 1
                 /\ pc' = "hardstop"
                 /\ UNCHANGED <<num_trial, lr_decays, n_restore, n_save, exit_msg, trial_at>>
       ELSE /\ pc' = "hardstop"
            /\ UNCHANGED <<patience, num_trial, lr_decays, n_restore, n_save, exit_msg,
                           trial_at>>
    /\ UNCHANGED <<args, epoch, batch_idx, train_iter>>
    /\ UNCHANGED <<entryVars, persistVars>>

\* if epoch == int(args['--max-epoch'])
HardStopTest == epoch = args.max_epoch

\* the hard stop at the end of a batch's body
HardStop ==
    /\ pc = "hardstop"
    /\ IF HardStopTest
       THEN /\ exit_msg' = "reached maximum number of epochs!"
            /\ pc' = "exited"
       ELSE /\ pc' = "for"
            /\ UNCHANGED exit_msg
    /\ UNCHANGED <<args, epoch, batch_idx, train_iter, patience, num_trial, valid_num,
                   hist_valid_scores, lr_decays, n_restore, n_save, trial_at>>
    /\ UNCHANGED <<entryVars, persistVars>>

TrainNext ==
    \/ EpochStart
    \/ TrainBatch
    \/ ForEnd
    \/ \E valid_metric \in Scores : Validate(valid_metric)
    \/ HardStop

\* the command line of the specifications that do not run train()
IdleArgs ==
    [max_epoch |-> 1, max_num_trial |-> 1, patience |-> 1, valid_niter |-> 1, nbatches |-> 1]

\* ================================================================ vocab.py

\* subwords a vocabulary is built from and added to
Subwords == {"<unk>", "a", "b"}
\* words looked up: in the vocabulary from the start, possibly added, never added
LookupWords == {"<unk>", "a", "zz"}
\* words of the sentences handed to words2indices: possibly added, never added
SentenceWords == {"a", "zz"}
\* numbers of sentences in a list of sentences
SentCounts == {1, 2}

\* ---- a Python dict: its items in insertion order, keys unique ----
DictHas(d, k) == \E i \in 1..Len(d) : d[i][1] = k

\* d[k] of a present key, d.get(k, default) in general
DictGet(d, k, default) ==
    IF DictHas(d, k)
    THEN d[CHOOSE i \in 1..Len(d) : d[i][1] = k /\ \A j \in (i+1)..Len(d) : d[j][1] # k][2]
    ELSE default

\* d[k] = v: a present key keeps its place, a new key goes last
DictSet(d, k, v) ==
    IF DictHas(d, k)
    THEN [i \in 1..Len(d) |-> IF d[i][1] = k THEN <<k, v>> ELSE d[i]]
    ELSE Append(d, <<k, v>>)

DictItems(d) == {d[i] : i \in 1..Len(d)}

RECURSIVE InvertDict(_)
\* {v: k for k, v in word2id.items()}
InvertDict(d) ==
    IF Len(d) = 0 THEN <<>>
    ELSE DictSet(InvertDict(SubSeq(d, 1, Len(d) - 1)), d[Len(d)][2], d[Len(d)][1])

\* the dict VocabEntry() starts from when no word2id is given
DefaultWord2id == << <<"<pad>", 0>>, <<"<s>", 1>>, <<"</s>", 2>>, <<"<unk>", 3>> >>

\* `if word2id:` a dict is true when it is given and not empty
Truthy(word2id) == word2id # None /\ Len(word2id) > 0

\* VocabEntry.__init__
NewVocabEntry(word2id) ==
    LET w == IF Truthy(word2id) THEN word2id ELSE DefaultWord2id
    IN IF ~DictHas(w, "<unk>")
       THEN [raised |-> "KeyError"]
       ELSE [word2id |-> w, unk_id |-> DictGet(w, "<unk>", -1), id2word |-> InvertDict(w)]

\* a lookup that falls back on id 0 instead of unk_id
GetItemOfPadDefault(e, word) == DictGet(e.word2id, word, 0)

\* VocabEntry.__getitem__
GetItemOf(e, word) == DictGet(e.word2id, word, e.unk_id)

\* VocabEntry.__contains__
ContainsOf(e, word) == DictHas(e.word2id, word)

\* VocabEntry.__len__
LenOf(e) == Len(e.word2id)

\* an id one past the size
NewIdOffByOne(e) == LenOf(e) + 1

\* the id VocabEntry.add gives a word it has not seen
NewId(e) == LenOf(e)

\* VocabEntry.add: the entry after the call and the value returned
AddOf(e, word) ==
    IF ~ContainsOf(e, word)
    THEN LET wid == NewId(e)
         IN [entry |-> [e EXCEPT !.word2id = DictSet(e.word2id, word, wid),
                                 !.id2word = DictSet(e.id2word, wid, word)],
             val |-> wid]
    ELSE [entry |-> e, val |-> GetItemOf(e, word)]

\* ---- Python's attribute lookup on a VocabEntry instance ----
\* the functions class VocabEntry defines
ClassMethods == {"__init__", "__getitem__", "__contains__", "__setitem__", "__len__",
                 "__repr__", "id2word", "add", "words2indices", "indices2words",
                 "to_input_tensor", "from_corpus", "from_subword_list"}

\* self.<name>: a function of the class is a non-data descriptor, so an attribute of the
\* instance, set by __init__, is found first
GetAttr(e, name) ==
    IF name \in DOMAIN e THEN [kind |-> "value", holds |-> "dict", name |-> name]
    ELSE IF name \in ClassMethods THEN [kind |-> "method", holds |-> "function", name |-> name]
    ELSE [kind |-> "AttributeError", holds |-> "", name |-> name]

\* self.id2word[wid] as the body of def id2word and indices2words evaluate it
SubscriptId2word(e, wid) ==
    LET a == GetAttr(e, "id2word")
    IN IF a.kind = "value"
       THEN IF DictHas(e.id2word, wid)
            THEN [err |-> "", val |-> DictGet(e.id2word, wid, "")]
            ELSE [err |-> "KeyError", val |-> ""]
       ELSE [err |-> "TypeError", val |-> ""]

\* entry.id2word(wid): look the attribute up, then call what was found
CallId2word(e, wid) ==
    LET a == GetAttr(e, "id2word")
    IN IF a.kind = "method"
       THEN SubscriptId2word(e, wid)
       ELSE [err |-> "TypeError", val |-> ""]

RECURSIVE IndicesToWordsOf(_, _)
\* VocabEntry.indices2words
IndicesToWordsOf(e, word_ids) ==
    IF Len(word_ids) = 0 THEN [err |-> "", val |-> <<>>]
    ELSE LET r == IndicesToWordsOf(e, SubSeq(word_ids, 1, Len(word_ids) - 1))
             x == SubscriptId2word(e, word_ids[Len(word_ids)])
         IN IF r.err # "" THEN r
            ELSE IF x.err # "" THEN [err |-> x.err, val |-> <<>>]
            ELSE [err |-> "", val |-> Append(r.val, x.val)]

\* Python values in a list handed to words2indices: a str or a list of str
PyStr(w) == [t |-> "str", str |-> w, list |-> <<>>]
PyList(s) == [t |-> "list", str |-> "", list |-> s]

\* [self[w] for w in s]
LookupAll(e, s) == [i \in 1..Len(s) |-> GetItemOf(e, s[i])]

\* VocabEntry.words2indices
WordsToIndicesOf(e, sents) ==
    IF Len(sents) = 0 THEN [err |-> "", ids |-> <<>>, idss |-> <<>>]
    ELSE IF sents[1].t = "list"
    THEN [err |-> "", ids |-> <<>>,
          idss |-> [i \in 1..Len(sents) |-> LookupAll(e, sents[i].list)]]
    ELSE IF sents[1].t = "str"
    THEN IF \A i \in 1..Len(sents) : sents[i].t = "str"
         THEN [err |-> "", ids |-> [i \in 1..Len(sents) |-> GetItemOf(e, sents[i].str)],
               idss |-> <<>>]
         ELSE [err |-> "AssertionError", ids |-> <<>>, idss |-> <<>>]
    ELSE [err |-> "NotImplementedError", ids |-> <<>>, idss |-> <<>>]

RECURSIVE FromSubwordList(_)
\* VocabEntry.from_subword_list
FromSubwordList(subword_list) ==
    IF Len(subword_list) = 0 THEN NewVocabEntry(None)
    ELSE AddOf(FromSubwordList(SubSeq(subword_list, 1, Len(subword_list) - 1)),
               subword_list[Len(subword_list)]).entry

\* ---- sequences of bounded length ----
SeqsUpTo(S, n) == UNION {[1..k -> S] : k \in 0..n}

\* a sentence (list of str), and a list of sentences
Sentences == SeqsUpTo(SentenceWords, MaxSentLen)
SentInputs == {[i \in 1..Len(s) |-> PyStr(s[i])] : s \in Sentences}
SentsInputs == UNION {[1..k -> {PyList(s) : s \in Sentences}] : k \in SentCounts}
WordsToIndicesInputs == SentInputs \cup SentsInputs

\* ---------------------------------------------------------------- EntrySpec
\* the value of ret before any call
\* op: the method called; word, wid, wids, sents: its arguments; err: the exception
\* raised, "" for none; id, str, ids, idss, words: the value returned, by its type
NoCall ==
    [op |-> "init", word |-> "", wid |-> 0, wids |-> <<>>, sents |-> <<>>, err |-> "",
     id |-> 0, str |-> "", ids |-> <<>>, idss |-> <<>>, words |-> <<>>]

\* entry.add(word)
Add(word) ==
    LET r == AddOf(entry, word)
    IN /\ entry' = r.entry
       /\ ret' = [NoCall EXCEPT !.op = "add", !.word = word, !.id = r.val]
       /\ UNCHANGED <<trainVars, persistVars>>

\* entry[word]
GetItem(word) ==
    /\ ret' = [NoCall EXCEPT !.op = "getitem", !.word = word, !.id = GetItemOf(entry, word)]
    /\ UNCHANGED <<entry, trainVars, persistVars>>

\* an item assignment that writes the dict before raising
SetItemOfWrites(e, key, value) == [e EXCEPT !.word2id = DictSet(e.word2id, key, value)]

\* what entry[key] = value does to the entry
SetItemOf(e, key, value) == e

\* entry[key] = value
SetItem(key, value) ==
    /\ entry' = SetItemOf(entry, key, value)
    /\ ret' = [NoCall EXCEPT !.op = "setitem", !.word = key, !.wid = value, !.err = "ValueError"]
    /\ UNCHANGED <<trainVars, persistVars>>

\* entry.id2word(wid)
Id2word(wid) ==
    LET r == CallId2word(entry, wid)
    IN /\ ret' = [NoCall EXCEPT !.op = "id2word", !.wid = wid, !.err = r.err, !.str = r.val]
       /\ UNCHANGED <<entry, trainVars, persistVars>>

\* entry.indices2words(word_ids)
IndicesToWords(word_ids) ==
    LET r == IndicesToWordsOf(entry, word_ids)
    IN /\ ret' = [NoCall EXCEPT !.op = "indices2words", !.wids = word_ids, !.err = r.err,
                                !.words = r.val]
       /\ UNCHANGED <<entry, trainVars, persistVars>>

\* entry.words2indices(sents)
WordsToIndices(sents) ==
    LET r == WordsToIndicesOf(entry, sents)
    IN /\ ret' = [NoCall EXCEPT !.op = "words2indices", !.sents = sents, !.err = r.err,
                                !.ids = r.ids, !.idss = r.idss]
       /\ UNCHANGED <<entry, trainVars, persistVars>>

\* ids handed to id2word and indices2words: assigned ones and one that never is
WordIds == 0..(3 + Cardinality(Subwords))

EntryNext ==
    \/ \E word \in Subwords : Add(word)
    \/ \E word \in LookupWords : GetItem(word)
    \/ \E key \in LookupWords, value \in WordIds : SetItem(key, value)
    \/ \E wid \in WordIds : Id2word(wid)
    \/ \E wid \in WordIds : IndicesToWords(<<wid>>)
    \/ \E sents \in WordsToIndicesInputs : WordsToIndices(sents)

\* ---------------------------------------------------------------- PersistSpec
\* json.dump of a dict: the members of a JSON object, in the dict's order; a str key and
\* an int value are written as they are
JsonObject(d) == [i \in 1..Len(d) |-> <<d[i][1], d[i][2]>>]

RECURSIVE JsonParseObject(_)
\* json.load of a JSON object: a dict, a repeated name keeping its last value
JsonParseObject(members) ==
    IF Len(members) = 0 THEN <<>>
    ELSE DictSet(JsonParseObject(SubSeq(members, 1, Len(members) - 1)),
                 members[Len(members)][1], members[Len(members)][2])

\* Vocab.save: dump(dict(src_word2id=self.src.word2id, tgt_word2id=self.tgt.word2id), f)
VocabDump(v) ==
    << <<"src_word2id", JsonObject(v.src.word2id)>>,
       <<"tgt_word2id", JsonObject(v.tgt.word2id)>> >>

\* entry['src_word2id'] / entry['tgt_word2id'] of the loaded JSON document
LoadedMember(text, name) == JsonParseObject(DictGet(text, name, <<>>))

\* a load that reads the target dict for both languages
VocabLoadTgtTwice(text) ==
    [src |-> NewVocabEntry(LoadedMember(text, "tgt_word2id")),
     tgt |-> NewVocabEntry(LoadedMember(text, "tgt_word2id"))]

\* Vocab.load
VocabLoad(text) ==
    [src |-> NewVocabEntry(LoadedMember(text, "src_word2id")),
     tgt |-> NewVocabEntry(LoadedMember(text, "tgt_word2id"))]

\* Vocab.build
VocabBuild(src_sents, tgt_sents) ==
    [src |-> FromSubwordList(src_sents), tgt |-> FromSubwordList(tgt_sents)]

SubwordLists == SeqsUpTo(Subwords, MaxListLen)

\* main(): vocab = Vocab.build(src_sents, tgt_sents)
Build(src_sents, tgt_sents) ==
    /\ vocab = None
    /\ vocab' = VocabBuild(src_sents, tgt_sents)
    /\ UNCHANGED <<file, loaded, saved, trainVars, entryVars>>

\* vocab.src.add(word) or vocab.tgt.add(word) on the built Vocab
VocabAdd(side, word) ==
    /\ vocab # None
    /\ vocab' = [vocab EXCEPT ![side] = AddOf(vocab[side], word).entry]
    /\ UNCHANGED <<file, loaded, saved, trainVars, entryVars>>

\* vocab.save(VOCAB_FILE)
Save ==
    /\ vocab # None
    /\ file' = VocabDump(vocab)
    /\ saved' = vocab
    /\ UNCHANGED <<vocab, loaded, trainVars, entryVars>>

\* Vocab.load(VOCAB_FILE)
Load ==
    /\ file # None
    /\ loaded' = VocabLoad(file)
    /\ UNCHANGED <<vocab, file, saved, trainVars, entryVars>>

PersistNext ==
    \/ \E src_sents \in SubwordLists, tgt_sents \in SubwordLists : Build(src_sents, tgt_sents)
    \/ \E side \in {"src", "tgt"}, word \in Subwords : VocabAdd(side, word)
    \/ Save
    \/ Load

\* ================================================================ specifications
TrainInit ==
    /\ args \in ArgSpace
    /\ pc = TrainLocals.pc
    /\ epoch = TrainLocals.epoch
    /\ batch_idx = TrainLocals.batch_idx
    /\ train_iter = TrainLocals.train_iter
    /\ patience = TrainLocals.patience
    /\ num_trial = TrainLocals.num_trial
    /\ valid_num = TrainLocals.valid_num
    /\ hist_valid_scores = TrainLocals.hist_valid_scores
    /\ lr_decays = TrainLocals.lr_decays
    /\ n_restore = TrainLocals.n_restore
    /\ n_save = TrainLocals.n_save
    /\ exit_msg = TrainLocals.exit_msg
    /\ trial_at = TrainLocals.trial_at
    /\ entry = NewVocabEntry(None)
    /\ ret = NoCall
    /\ vocab = None
    /\ file = None
    /\ loaded = None
    /\ saved = None

VocabInit ==
    /\ args = IdleArgs
    /\ pc = TrainLocals.pc
    /\ epoch = TrainLocals.epoch
    /\ batch_idx = TrainLocals.batch_idx
    /\ train_iter = TrainLocals.train_iter
    /\ patience = TrainLocals.patience
    /\ num_trial = TrainLocals.num_trial
    /\ valid_num = TrainLocals.valid_num
    /\ hist_valid_scores = TrainLocals.hist_valid_scores
    /\ lr_decays = TrainLocals.lr_decays
    /\ n_restore = TrainLocals.n_restore
    /\ n_save = TrainLocals.n_save
    /\ exit_msg = TrainLocals.exit_msg
    /\ trial_at = TrainLocals.trial_at
    /\ entry = NewVocabEntry(None)
    /\ ret = NoCall
    /\ vocab = None
    /\ file = None
    /\ loaded = None
    /\ saved = None

TrainSpec == TrainInit /\ [][TrainNext]_vars

\* the interpreter runs the single-threaded script until it exits
TrainFairSpec == TrainSpec /\ WF_vars(TrainNext)

EntrySpec == VocabInit /\ [][EntryNext]_vars

PersistSpec == VocabInit /\ [][PersistNext]_vars

\* ================================================================ properties

\* ---- train() ----
\* validation n strictly improved on every earlier validation metric
Improving(n) == \A j \in 1..(n - 1) : hist_valid_scores[n] > hist_valid_scores[j]

RECURSIVE Streak(_)
\* the number of consecutive non-improving validations up to validation n, counted
\* since the later of the last improvement and the last trial
Streak(n) ==
    IF n = 0 \/ Improving(n) \/ n \in trial_at THEN 0 ELSE 1 + Streak(n - 1)

EarlyStopped == pc = "exited" /\ exit_msg = "early stop!"

\* C1: with --max-num-trial >= 1 and --patience >= 1, num_trial never exceeds
\* --max-num-trial; train() has exited with 'early stop!' as soon as num_trial equals
\* --max-num-trial, and that step neither restores the checkpoint nor decays the
\* learning rate: every trial before it did both once, so an early stop follows exactly
\* --max-num-trial - 1 decays.
C1_TrialLimit ==
    (args.max_num_trial >= 1 /\ args.patience >= 1) =>
        /\ num_trial <= args.max_num_trial
        /\ (num_trial = args.max_num_trial <=> EarlyStopped)
        /\ (EarlyStopped => /\ lr_decays = args.max_num_trial - 1
                            /\ n_restore = args.max_num_trial - 1)
        /\ (~EarlyStopped => lr_decays = num_trial /\ n_restore = num_trial)

C1_Witness ==
    /\ EarlyStopped
    /\ args.max_num_trial = 2
    /\ args.patience = 2
    /\ num_trial = 2
    /\ lr_decays = 1

\* C2: every run of train() reaches exit(0), on the trial limit or on the epoch limit,
\* whatever --max-epoch >= 1, --max-num-trial, --patience and validation metrics are.
C2_Terminates ==
    <>(pc = "exited" /\ exit_msg \in {"early stop!", "reached maximum number of epochs!"})

C2_Witness ==
    /\ pc = "exited"
    /\ exit_msg = "reached maximum number of epochs!"
    /\ args.max_epoch = 3
    /\ args.max_num_trial = 0
    /\ valid_num >= 3

\* C8: with --patience >= 1, a trial happens at a validation exactly when that validation
\* is the --patience-th consecutive one that does not improve on the best metric since
\* the later of the last improvement and the last trial; patience counts those
\* validations (0 after an improvement and after a trial that does not exit, one more
\* after each non-improving validation) and stays in 0 .. --patience - 1 unless the
\* validation step exits.
C8_PatienceCounter ==
    args.patience >= 1 =>
        /\ num_trial = Cardinality(trial_at)
        /\ \A n \in 1..valid_num :
              n \in trial_at <=> (~Improving(n) /\ Streak(n - 1) = args.patience - 1)
        /\ (~EarlyStopped => /\ patience = Streak(valid_num)
                             /\ 0 <= patience
                             /\ patience < args.patience)
        /\ (EarlyStopped => patience = args.patience)

C8_Witness ==
    /\ args.patience = 2
    /\ pc = "hardstop"
    /\ num_trial = 1
    /\ trial_at = {3}
    /\ valid_num = 4
    /\ patience = 1

\* ---- VocabEntry ----
ItemsHave(d, k) == \E p \in DictItems(d) : p[1] = k

\* the id the dict stores for word, the one stored for '<unk>' when it stores none
StoredOrUnk(e, word) ==
    IF ItemsHave(e.word2id, word)
    THEN CHOOSE i \in {p[2] : p \in DictItems(e.word2id)} : <<word, i>> \in DictItems(e.word2id)
    ELSE CHOOSE i \in {p[2] : p \in DictItems(e.word2id)} : <<"<unk>", i>> \in DictItems(e.word2id)

\* C4: entry[word] returns the id stored for word, the id of '<unk>' for a word that is
\* not in the vocabulary, without raising and without changing the entry; words2indices
\* returns as many ids as it is given words, sentence by sentence for a list of
\* sentences, each one the id entry[word] gives.
C4_Lookup ==
    [][/\ ret'.op = "getitem" =>
            /\ ret'.err = ""
            /\ ret'.id = StoredOrUnk(entry, ret'.word)
            /\ entry' = entry
       /\ ret'.op = "words2indices" =>
            /\ ret'.err = ""
            /\ entry' = entry
            /\ Len(ret'.ids) + Len(ret'.idss) = Len(ret'.sents)
            /\ \A i \in 1..Len(ret'.sents) :
                  IF ret'.sents[i].t = "list"
                  THEN /\ Len(ret'.idss) = Len(ret'.sents)
                       /\ Len(ret'.idss[i]) = Len(ret'.sents[i].list)
                       /\ \A j \in 1..Len(ret'.sents[i].list) :
                             ret'.idss[i][j] = StoredOrUnk(entry, ret'.sents[i].list[j])
                  ELSE /\ Len(ret'.ids) = Len(ret'.sents)
                       /\ ret'.ids[i] = StoredOrUnk(entry, ret'.sents[i].str)]_vars

C4_Witness ==
    /\ ret.op = "words2indices"
    /\ ret.err = ""
    /\ ret.sents = <<PyList(<<"a", "zz">>), PyList(<<"zz">>)>>
    /\ ret.idss = << <<4, 3>>, <<3>> >>

\* C5: add(word) gives an unseen word the id equal to the size before the call, grows
\* word2id and id2word by that one pair and returns the id; for a word already in the
\* vocabulary it returns the stored id and leaves the entry as it is.
C5_Add ==
    [][ret'.op = "add" =>
         IF ~ItemsHave(entry.word2id, ret'.word)
         THEN /\ ret'.id = Cardinality(DictItems(entry.word2id))
              /\ Len(entry'.word2id) = Len(entry.word2id) + 1
              /\ DictItems(entry'.word2id) = DictItems(entry.word2id) \cup {<<ret'.word, ret'.id>>}
              /\ DictItems(entry'.id2word) = DictItems(entry.id2word) \cup {<<ret'.id, ret'.word>>}
              /\ entry'.unk_id = entry.unk_id
         ELSE /\ <<ret'.word, ret'.id>> \in DictItems(entry.word2id)
              /\ entry' = entry]_vars

C5_Witness ==
    /\ ret.op = "add"
    /\ ret.word = "b"
    /\ ret.id = 5
    /\ DictItems(entry.word2id) = DictItems(DefaultWord2id) \cup {<<"a", 4>>, <<"b", 5>>}

\* C6: entry[key] = value raises ValueError for every key and value, present or not, and
\* leaves word2id, id2word and unk_id as they were.
C6_ReadOnly ==
    [][ret'.op = "setitem" => ret'.err = "ValueError" /\ entry' = entry]_vars

C6_Witness ==
    /\ ret.op = "setitem"
    /\ ret.err = "ValueError"
    /\ ret.word = "a"
    /\ ret.wid = 0
    /\ ItemsHave(entry.word2id, "a")

\* C7: entry.id2word(wid) returns, for every assigned wid, the word of index wid: the
\* word indices2words([wid]) yields.
C7_Id2wordReturnsWord ==
    (ret.op = "id2word" /\ ItemsHave(entry.id2word, ret.wid)) =>
        /\ ret.err = ""
        /\ <<ret.str>> = IndicesToWordsOf(entry, <<ret.wid>>).val

\* ---- Vocab ----
\* id2word is the inverse of word2id, and unk_id the id of '<unk>'
WellFormedEntry(e) ==
    /\ DictItems(e.id2word) = {<<p[2], p[1]>> : p \in DictItems(e.word2id)}
    /\ Len(e.id2word) = Len(e.word2id)
    /\ <<"<unk>", e.unk_id>> \in DictItems(e.word2id)

\* C3: the Vocab that load returns has the word2id dicts of the Vocab whose save wrote
\* the file, and in each of its entries id2word is the inverse of word2id and unk_id the
\* id of '<unk>'.
C3_SaveLoadRoundTrip ==
    [][loaded' # loaded =>
         /\ DictItems(loaded'.src.word2id) = DictItems(saved.src.word2id)
         /\ DictItems(loaded'.tgt.word2id) = DictItems(saved.tgt.word2id)
         /\ WellFormedEntry(loaded'.src)
         /\ WellFormedEntry(loaded'.tgt)]_vars

C3_Witness ==
    /\ loaded # None
    /\ saved # None
    /\ Len(loaded.src.word2id) = 6
    /\ Len(loaded.tgt.word2id) = 5
    /\ DictItems(loaded.src.word2id) = DictItems(saved.src.word2id)
    /\ DictItems(loaded.tgt.word2id) = DictItems(saved.tgt.word2id)

====
